---------------------------- MODULE Spec2Model ----------------------------
(***************************************************************************)
(* The asynchronous test harness of cargo-web (src/unnamed/part_000): the  *)
(* script that is prepended to a compiled artifact, dispatches on the      *)
(* build target, reads the name filter from the arguments, discovers the   *)
(* exported __async_test__* functions, runs them one after another under a *)
(* 5000 ms timeout with the output channels redirected, and reports a      *)
(* summary and an exit status.                                             *)
(*                                                                         *)
(* The JavaScript event loop is modelled by one TLA+ step per turn of      *)
(* synchronous code: a timer callback, one statement of a test body, one   *)
(* statement of a callback a test body chained.   A hook call made by a   *)
(* test runs the whole hook (clean_up, print, clear_timeout, run_tests and *)
(* what they call) inside that step, as the call stack does.               *)
(***************************************************************************)
EXTENDS Integers, Sequences, FiniteSets, TLC

\* ------------------------------------------------------------------ bounds
\* The largest number of tests the export table holds after filtering.
MaxTests == 3

\* The longest argument list, and the most exports in an export table, that
\* the load of the harness is explored with.
MaxArgs == 2
MaxExports == 2

\* The number of times a module's memory grows.
MaxGrowth == 3
\* The instantiations of a WebAssembly module in one run: the loader's, and
\* those the page or the module's code makes after it.
MaxInstantiations == 2

\* ------------------------------------------------------- program constants
\* setTimeout( ..., 5000 ): the delay of the per-test timeout.
TimeoutMs == 5000
\* exit: the status the wrapper substitutes for 0 when a test has failed.
FailureStatus == 101

\* --------------------------------------------------------------- the values
Null == "null"

\* The names of the exported tests, in the enumeration order of the export
\* table (Object.keys( exports )).
TestNames == <<"a", "b", "c", "d", "e">>

NameSet == {TestNames[i] : i \in 1..MaxTests}

\* The channels the harness redirects: console.log/warn/error always, and
\* process.stdout.write / process.stderr.write under Node only.
ConsoleChannels == {"console_log", "console_warn", "console_error"}
ProcessChannels == {"process_stdout_write", "process_stderr_write"}

Channels(node) == IF node THEN ConsoleChannels \cup ProcessChannels ELSE ConsoleChannels

\* const originals = { console_log: ..., console_warn: ..., ... }
originals(node) == [c \in Channels(node) |-> "original"]

\* A thrown or rejected value: a plain string, or an Error object that carries
\* a stack.
Str(text) == [kind |-> "string", text |-> text, stack |-> ""]
Err(text) == [kind |-> "object", text |-> text, stack |-> text \o " at <stack>"]

\* The values a test rejects with or throws: an Error object.  (A plain string
\* reaches the reject hook as the timeout's reason.)
UserErrors == {Err("Error: boom")}

\* setTimeout( function() { ASYNC_TEST_PRIVATE.reject( "Timeout!" ); }, 5000 )
TimeoutReason == Str("Timeout!")

\* What the engine throws when the capturing console.log evaluates
\* `outputs[ name ] += text`: neither `outputs` nor `name` is in scope.
ReferenceError == Err("ReferenceError: outputs is not defined")

\* What the engine throws when ASYNC_TEST_PRIVATE.resolve / .reject is called
\* while it is null.
TypeError == Err("TypeError: ASYNC_TEST_PRIVATE.reject is not a function")

\* One printed piece of text, by the harness's print.
Line(kind, name, a, b, out) == [kind |-> kind, name |-> name, a |-> a, b |-> b, out |-> out]

Range(s) == {s[i] : i \in DOMAIN s}

NoDuplicates(s) == \A i, j \in DOMAIN s : i # j => s[i] # s[j]

\* ---------------------------------------------- configuration and discovery
\* The three values of env.target that the target dispatch knows.
Targets == {"asmjs-unknown-emscripten", "wasm32-unknown-emscripten", "wasm32-unknown-unknown"}

\* A value of env.target that it does not know.
OtherTargets == {"wasm32-wasi"}

Emscripten(target_name) ==
    target_name \in {"asmjs-unknown-emscripten", "wasm32-unknown-emscripten"}

\* arg.startsWith( prefix )
startsWith(text, prefix) ==
    Len(text) >= Len(prefix) /\ SubSeq(text, 1, Len(prefix)) = prefix

\* name.indexOf( filter ): the first position (from 0) at which filter occurs
\* in name, -1 when it occurs nowhere.
indexOf(text, pattern) ==
    LET at == {i \in 0..(Len(text) - Len(pattern)) :
                  SubSeq(text, i + 1, i + Len(pattern)) = pattern}
    IN  IF at = {} THEN -1 ELSE CHOOSE i \in at : \A k \in at : i <= k

\* The flags after which get_filter means to skip a value.
ValueFlags == {"--skip", "--logfile", "--test-threads", "--color", "--format"}

\* A call of get_filter ends by returning a value or by throwing one.
Returned(value) == [status |-> "returned", value |-> value]
Thrown(value) == [status |-> "thrown", value |-> value]
NotCalled == [status |-> "none", value |-> Null]

\* get_filter( args ), from the iteration with index i on.  The statement
\* `j++` names a variable that the harness declares nowhere: it throws a
\* ReferenceError unless the code of the artifact, which shares the scope
\* chain, happens to declare a `j`, and then it changes that `j` and nothing
\* of the loop.
RECURSIVE get_filter_from(_, _, _)
get_filter_from(args, i, j_declared) ==
    IF i >= Len(args) THEN Returned(Null)
    ELSE LET arg == args[i + 1]
         IN  IF startsWith(arg, "--")
             THEN IF arg \in ValueFlags /\ ~j_declared
                  THEN Thrown("ReferenceError: j is not defined")
                  ELSE get_filter_from(args, i + 1, j_declared)
             ELSE Returned(args[i + 1])

get_filter(args, j_declared) == get_filter_from(args, 0, j_declared)

\* match with the bug of a pattern that takes an empty name, (.*).
match_empty_name(symbol) ==
    LET prefix == "__async_test__"
        after(lead) == SubSeq(symbol, Len(lead) + Len(prefix) + 1, Len(symbol))
    IN  IF startsWith(symbol, "_" \o prefix)
        THEN <<symbol, after("_")>>
        ELSE IF startsWith(symbol, prefix)
             THEN <<symbol, after("")>>
             ELSE <<>>

\* symbol.match( /^_?__async_test__(.+)/ ): <<>> for null, otherwise the
\* matched text and the text of the group.  Export identifiers hold no line
\* terminator, so `.+` takes all that follows the prefix, and needs one
\* character at least.  `_?` first tries to take an underscore and gives it
\* back when the rest does not match.
match(symbol) ==
    LET prefix == "__async_test__"
        after(lead) == SubSeq(symbol, Len(lead) + Len(prefix) + 1, Len(symbol))
    IN  IF startsWith(symbol, "_" \o prefix) /\ Len(symbol) > Len(prefix) + 1
        THEN <<symbol, after("_")>>
        ELSE IF startsWith(symbol, prefix) /\ Len(symbol) > Len(prefix)
             THEN <<symbol, after("")>>
             ELSE <<>>

\* The number a text of digits denotes, -1 for any other text.
RECURSIVE ToNumber(_)
ToNumber(text) ==
    IF Len(text) = 0 THEN 0
    ELSE LET last == SubSeq(text, Len(text), Len(text))
             digits == {d \in 0..9 : SubSeq("0123456789", d + 1, d + 1) = last}
             rest == ToNumber(SubSeq(text, 1, Len(text) - 1))
         IN  IF digits = {} \/ rest = -1 THEN -1
             ELSE 10 * rest + (CHOOSE d \in digits : TRUE)

\* The number a property key of at most ten digits denotes, as the number of
\* its digits before the last five and the number of its last five digits.
Index(key) ==
    IF Len(key) > 5
    THEN <<ToNumber(SubSeq(key, 1, Len(key) - 5)), ToNumber(SubSeq(key, Len(key) - 4, Len(key)))>>
    ELSE <<0, ToNumber(key)>>

Below(m, n) == m[1] < n[1] \/ (m[1] = n[1] /\ m[2] < n[2])

\* A property key that is an array index: the canonical decimal form of an
\* integer below 2^32 - 1 = 4294967295.  The own keys of an object enumerate
\* these first, in ascending order, and the other keys after them in order of
\* creation.
IsIndex(key) ==
    /\ Len(key) \in 1..10
    /\ Len(key) = 1 \/ SubSeq(key, 1, 1) # "0"
    /\ Index(key)[1] # -1 /\ Index(key)[2] # -1
    /\ Below(Index(key), <<42949, 67295>>)

\* object[ key ] = value, for an object held as its own properties in the
\* order Object.keys enumerates them: an existing property keeps its place.
SetProperty(object, key, value) ==
    LET property == [key |-> key, value |-> value]
        lower(p) == IsIndex(p.key) /\ Below(Index(p.key), Index(key))
    IN  IF \E i \in DOMAIN object : object[i].key = key
        THEN [i \in DOMAIN object |-> IF object[i].key = key THEN property ELSE object[i]]
        ELSE IF IsIndex(key)
             THEN SelectSeq(object, lower) \o <<property>>
                      \o SelectSeq(object, LAMBDA p : ~lower(p))
             ELSE Append(object, property)

\* Object.keys( object )
Keys(object) == [i \in DOMAIN object |-> object[i].key]

\* object[ key ]
Get(object, key) == (CHOOSE p \in {object[i] : i \in DOMAIN object} : p.key = key).value

\* get_async_tests with the bug of comparing the name with the filter.
RECURSIVE get_async_tests_equal(_, _, _, _)
get_async_tests_equal(filter, exports, i, tests) ==
    IF i >= Len(exports) THEN tests
    ELSE LET symbol == exports[i + 1]
             matched == match(symbol)
         IN  IF matched # <<>> /\ (filter = Null \/ matched[2] = filter)
             THEN get_async_tests_equal(filter, exports, i + 1,
                                        SetProperty(tests, matched[2], symbol))
             ELSE get_async_tests_equal(filter, exports, i + 1, tests)

\* get_async_tests( filter, exports ), from the iteration with index i on:
\* `exports` is Object.keys( exports ), and the value of an export, a function
\* of the module, is written as the export's identifier.
RECURSIVE get_async_tests_from(_, _, _, _)
get_async_tests_from(filter, exports, i, tests) ==
    IF i >= Len(exports) THEN tests
    ELSE LET symbol == exports[i + 1]
             matched == match(symbol)
         IN  IF matched # <<>> /\ (filter = Null \/ indexOf(matched[2], filter) # -1)
             THEN get_async_tests_from(filter, exports, i + 1,
                                       SetProperty(tests, matched[2], symbol))
             ELSE get_async_tests_from(filter, exports, i + 1, tests)

get_async_tests(filter, exports) == get_async_tests_from(filter, exports, 0, <<>>)

VARIABLES
    is_node_js,         \* typeof process === "object" && typeof require === "function"
    env,                \* env = { args, target }, as read from the host
    exports,            \* Object.keys of the export table of the artifact
    interception,       \* the hooks the target dispatch has installed and that are
                        \* still in place
    filter,             \* how the call of get_filter ended
    test_callback,      \* tests[ name ] as get_async_tests returned it: the export
                        \* whose function is the body of the test
    entry_point,        \* what the entry-point slot of the export table holds
    main_args,          \* the arguments the substituted entry point was called with
    uncaught,           \* the exceptions that left the harness for the host
    main_throws,        \* whether the module's real main throws (a panic, a trap)
    real_instance,      \* real_instance.exports (Module under emscripten): the own
                        \* properties of the export object of the artifact
    target_exports,     \* target.exports, empty while it is null
    instantiations,     \* the calls of WebAssembly.Instance / WebAssembly.instantiate
    runs,               \* the calls of `run`
    template,           \* the loader the artifact was generated from
    load_asynchronously, \* __load_asynchronously
    wasm_module,        \* __wasm_module: whether it can be instantiated
    call_main,          \* whether {{call_main}} expands to a call of main
    position,           \* where the loader is: its call, its promise, its end
    HEAP,               \* HEAP8 ... HEAPF64: the typed views
    memory,             \* the identity of Module.instance.exports.memory.buffer
    Module,             \* Module.instance, null before __instantiate
    trace,              \* what the loader has done, in order
    delivered,          \* what the caller of the loader got
    pc,                 \* "script": the target dispatch is about to run;
                        \* "configured": the interception is installed;
                        \* "loaded": the runtime has not called the entry point yet;
                        \* "started": it has; "failed": the load threw
    tests,              \* the tests still queued (the keys of `tests`, in order)
    state,              \* state = { current_timeout, outputs, failed, n_passed }
    ASYNC_TEST_PRIVATE, \* { resolve, reject }: the test whose hooks are installed
    console,            \* per channel: "original" or "capture"
    timers,             \* the event loop: start callbacks (FIFO) and live timeouts
    printed,            \* everything print() was given, in order
    main_calls,         \* the calls of the module's real main
    exit_calls,         \* the statuses given to env.real_exit
    terminated,         \* env.real_exit has been called: the run is over
    active,             \* the test code on the call stack, or Null
    callbacks,          \* tests with a chained callback still pending
    discovered,         \* what get_async_tests returned
    exec_log,           \* the tests whose body was invoked, in order
    settle_log,         \* every run of a resolve/reject hook: whose, and whether
                        \* that test's own code or timer called it
    written,            \* the last test that wrote to a redirected channel
    live_console        \* the last test whose text reached the original channels

harness == <<tests, state, ASYNC_TEST_PRIVATE, console, timers, printed,
             main_calls, exit_calls, terminated, settle_log, uncaught>>
runtime == <<template, load_asynchronously, wasm_module, call_main, position, HEAP, memory,
             Module, trace, delivered>>
loader == <<env, exports, interception, filter, test_callback, entry_point, main_throws,
            real_instance, target_exports, instantiations, runs, runtime>>
vars == <<is_node_js, pc, harness, active, callbacks, discovered, exec_log,
          written, live_console, loader, main_args>>

\* ------------------------------------------------- the harness's functions
\* The functions of the harness act on H, the record of everything they can
\* change; an action hands them the current values and stores the result.
Cur ==
    [node |-> is_node_js, tests |-> tests, state |-> state,
     hooks |-> ASYNC_TEST_PRIVATE, console |-> console, timers |-> timers,
     printed |-> printed, main_calls |-> main_calls, exit_calls |-> exit_calls,
     terminated |-> terminated, settle_log |-> settle_log, main_args |-> main_args,
     main_throws |-> main_throws, uncaught |-> uncaught, thrown |-> <<>>]

Store(H) ==
    /\ tests' = H.tests
    /\ state' = H.state
    /\ ASYNC_TEST_PRIVATE' = H.hooks
    /\ console' = H.console
    /\ timers' = H.timers
    /\ printed' = H.printed
    /\ main_calls' = H.main_calls
    /\ exit_calls' = H.exit_calls
    /\ terminated' = H.terminated
    /\ settle_log' = H.settle_log
    /\ uncaught' = H.uncaught

\* JavaScript calls by value: the argument of a call is evaluated once, before
\* the function runs.  Call(F, arg) is F(arg) with that order of evaluation.
Call(F(_), arg) == CHOOSE result \in {F(value) : value \in {arg}} : TRUE

\* print( text )
print(H, line) == [H EXCEPT !.printed = Append(@, line)]

\* show_summary( state ): the dump of every failed test that has output, the
\* "failures (async):" block, the status line.
RECURSIVE print_outputs(_, _)
print_outputs(H, i) ==
    IF i > Len(H.state.failed) THEN H
    ELSE LET failed_test_name == H.state.failed[i]
             output == H.state.outputs[failed_test_name]
             H1 == IF Len(output) # 0
                   THEN print(print(H, Line("header", failed_test_name, 0, 0, <<>>)),
                              Line("output", failed_test_name, 0, 0, output))
                   ELSE H
         IN  Call(LAMBDA h : print_outputs(h, i + 1), H1)

\* print_names with the bug of listing no name.
print_names_none(H, i) == H

RECURSIVE print_names(_, _)
print_names(H, i) ==
    IF i > Len(H.state.failed) THEN H
    ELSE Call(LAMBDA h : print_names(h, i + 1),
              print(H, Line("name", H.state.failed[i], 0, 0, <<>>)))

show_summary(H) ==
    LET status == IF Len(H.state.failed) # 0 THEN "FAILED" ELSE "ok"
        H1 == IF Len(H.state.failed) # 0
              THEN print(Call(LAMBDA h : print_names(h, 1),
                              print(print_outputs(H, 1),
                                    Line("failures (async):", "", 0, 0, <<>>))),
                         Line("blank", "", 0, 0, <<>>))
              ELSE H
    IN  print(H1, Line("test result (async):", status, H.state.n_passed,
                       Len(H.state.failed), <<>>))

\* clear_timeout( state )
clear_timeout(H) ==
    IF H.state.current_timeout # Null
    THEN [H EXCEPT !.timers.timeout = {t \in @ : t.id # H.state.current_timeout},
                   !.state.current_timeout = Null]
    ELSE H

\* clean_up with the bug of leaving console.warn redirected.
clean_up_keeps_warn(H) ==
    [H EXCEPT !.console = [c \in DOMAIN @ |-> IF c = "console_warn" THEN @[c] ELSE "original"],
              !.hooks = [resolve |-> Null, reject |-> Null]]

\* clean_up(): the original channels are put back and both hooks are nulled.
clean_up(H) ==
    [H EXCEPT !.console = originals(H.node),
              !.hooks = [resolve |-> Null, reject |-> Null]]

\* env.real_exit( status ): process.exit under Node, the embedder's
\* Module.onExit in a browser.  Either ends the run.
real_exit(H, status) ==
    [H EXCEPT !.exit_calls = Append(@, status), !.terminated = TRUE]

\* exit with the bug of handing the status on as it came.
exit_unmapped(H, status) == real_exit(H, status)

\* exit with the bug of reporting a failure whatever status it is given, once
\* a test has failed.
exit_masking(H, status) ==
    real_exit(H, IF Len(H.state.failed) # 0 THEN FailureStatus ELSE status)

\* exit with the bug of reporting a failure whatever the tests did.
exit_failing(H, status) == real_exit(H, FailureStatus)

\* exit( status )
exit(H, status) ==
    real_exit(H, IF Len(H.state.failed) # 0 /\ status = 0 THEN FailureStatus ELSE status)

\* A call of the module's real main.  The call is recorded with its arguments,
\* its caller, and what main finds: the channels, the armed timeout, the live
\* timers, the tests recorded and the summary lines printed so far.
real_main(H, arguments, caller) ==
    [H EXCEPT !.main_calls =
        Append(@, [console |-> H.console, current_timeout |-> H.state.current_timeout,
                   live |-> H.timers.timeout, settled |-> Len(H.settle_log),
                   args |-> arguments, by |-> caller,
                   summaries |-> Len(SelectSeq(H.printed,
                                     LAMBDA l : l.kind = "test result (async):"))])]

\* What a real main that does not return throws.
MainError == Err("RuntimeError: unreachable")

\* run_main with the bug of calling real main without the arguments.
run_main_without_arguments(H) == Call(show_summary, real_main(H, <<>>, "run_main"))

\* target.run_main(): real_main.apply( null, main_args ), then the summary.
\* Nothing catches what real main throws: H.thrown is the exception that is
\* on its way up the call stack.
run_main(H) ==
    LET H1 == real_main(H, H.main_args, "run_main")
    IN  IF H.main_throws THEN [H1 EXCEPT !.thrown = <<MainError>>]
        ELSE Call(show_summary, H1)

\* target.run_main(); exit( 0 ); of run_tests: an exception of run_main leaves
\* run_tests before the call of exit.
finish(H) == Call(LAMBDA h : IF h.thrown # <<>> THEN h ELSE exit(h, 0), run_main(H))

\* first_key with the bug of taking the last key of the table.
first_key_last(ts) == ts[Len(ts)]

\* Object.keys( tests )[0]: the test that is run next.
first_key(ts) == Head(ts)

\* delete with the bug of leaving the test in the table.
delete_nothing(ts, test_name) == ts

\* delete tests[ test_name ]
delete(ts, test_name) == SelectSeq(ts, LAMBDA t : t # test_name)

\* run_tests with the bug of printing the banner before every test.
run_tests_announcing(H) ==
    IF H.tests = <<>>
    THEN finish(H)
    ELSE LET test_name == first_key(H.tests)
             H1 == print(H, Line("running", "", Len(H.tests), 0, <<>>))
             H2 == [H1 EXCEPT
                      !.tests = delete(@, test_name),
                      !.state.outputs = [n \in DOMAIN @ \cup {test_name} |->
                                            IF n = test_name THEN <<>> ELSE @[n]]]
             H3 == print(H2, Line("test", test_name, 0, 0, <<>>))
         IN  [H3 EXCEPT !.hooks = [resolve |-> test_name, reject |-> test_name],
                        !.timers.start = Append(@, test_name)]

\* run_tests( state, tests ), up to and including the setTimeout( ..., 0 ) that
\* schedules the test body; the scheduled function is StartTest below.
run_tests(H) ==
    IF H.tests = <<>>
    THEN finish(H)
    ELSE LET test_name == first_key(H.tests)
             H1 == IF Len(H.state.failed) = 0 /\ H.state.n_passed = 0
                   THEN print(H, Line("running", "", Len(H.tests), 0, <<>>))
                   ELSE H
             H2 == [H1 EXCEPT
                      !.tests = delete(@, test_name),
                      !.state.outputs = [n \in DOMAIN @ \cup {test_name} |->
                                            IF n = test_name THEN <<>> ELSE @[n]]]
             H3 == print(H2, Line("test", test_name, 0, 0, <<>>))
         IN  [H3 EXCEPT !.hooks = [resolve |-> test_name, reject |-> test_name],
                        !.timers.start = Append(@, test_name)]

\* rejection_text with the bug of never using the stack.
rejection_text_plain(error) == [kind |-> "rejected", text |-> error.text]

\* "Rejected with error: " + error.stack, or + error when it carries no stack.
rejection_text(error) ==
    IF error.kind = "object" /\ error.stack # ""
    THEN [kind |-> "rejected", text |-> error.stack]
    ELSE [kind |-> "rejected", text |-> error.text]

\* resolve with the bug of not counting the test.
resolve_uncounted(H, test_name, by) ==
    LET H1 == [H EXCEPT !.settle_log = Append(@, [test |-> test_name, outcome |-> "passed",
                                                  own |-> (by = test_name), reason |-> Str("")])]
    IN  Call(run_tests,
             Call(clear_timeout, print(clean_up(H1), Line("ok", test_name, 0, 0, <<>>))))

\* ASYNC_TEST_PRIVATE.resolve as run_tests installed it for test_name, called
\* by code of test `by` (its body, a callback it chained, its timeout timer).
resolve(H, test_name, by) ==
    LET H1 == [H EXCEPT !.state.n_passed = @ + 1,
                        !.settle_log = Append(@, [test |-> test_name, outcome |-> "passed",
                                                  own |-> (by = test_name), reason |-> Str("")])]
    IN  Call(run_tests,
             Call(clear_timeout, print(clean_up(H1), Line("ok", test_name, 0, 0, <<>>))))

\* reject with the bug of not listing the test in failed.
reject_unlisted(H, test_name, error, by) ==
    LET H1 == [H EXCEPT !.state.outputs[test_name] = Append(@, rejection_text(error)),
                        !.settle_log = Append(@, [test |-> test_name, outcome |-> "failed",
                                                  own |-> (by = test_name), reason |-> error])]
    IN  Call(run_tests,
             Call(clear_timeout, print(clean_up(H1), Line("FAILED", test_name, 0, 0, <<>>))))

\* ASYNC_TEST_PRIVATE.reject as run_tests installed it for test_name.
reject(H, test_name, error, by) ==
    LET H1 == [H EXCEPT !.state.outputs[test_name] = Append(@, rejection_text(error)),
                        !.state.failed = Append(@, test_name),
                        !.settle_log = Append(@, [test |-> test_name, outcome |-> "failed",
                                                  own |-> (by = test_name), reason |-> error])]
    IN  Call(run_tests,
             Call(clear_timeout, print(clean_up(H1), Line("FAILED", test_name, 0, 0, <<>>))))

\* -------------------------------------------------------- the event loop
NoCode == [kind |-> "none", test |-> Null]

\* Idle with the bug of a start callback that is run while test code is on
\* the stack.
Idle_inline == pc = "started" /\ ~terminated /\ uncaught = <<>>

\* The event loop is between two callbacks, or test code is on the stack; the
\* run is over once the real exit has been called or an exception has reached
\* the host.
Idle == pc = "started" /\ ~terminated /\ uncaught = <<>> /\ active.kind = "none"
Running == pc = "started" /\ ~terminated /\ uncaught = <<>> /\ active.kind # "none"

\* The exception on its way up the call stack, if any, reaches the host.
escape(H) ==
    IF H.thrown = <<>> THEN H
    ELSE [H EXCEPT !.uncaught = @ \o H.thrown, !.thrown = <<>>]

\* start_test with the bug of not arming the timeout.
start_test_unarmed(H, test_name) ==
    [H EXCEPT !.timers.start = Tail(@),
              !.console = [c \in DOMAIN @ |-> "capture"]]

\* The function run_tests hands to setTimeout( ..., 0 ), up to the call of the
\* test body: the 5000 ms timeout is armed and kept in state.current_timeout,
\* and every channel is redirected.
start_test(H, test_name) ==
    [H EXCEPT !.timers.start = Tail(@),
              !.timers.timeout = @ \cup {[id |-> test_name, delay |-> TimeoutMs]},
              !.state.current_timeout = test_name,
              !.console = [c \in DOMAIN @ |-> "capture"]]

\* The redirected console.log / process.stdout.write: `outputs[ name ] += text`
\* names two variables that no scope declares, so the call throws before it
\* appends anything.
capture_write(H, test_name) == [H |-> H, thrown |-> ReferenceError]

\* raise with the bug of a body that is called outside try / catch.
raise_unhandled(H, code, error) == H

\* try { callback(); } catch( error ) { ASYNC_TEST_PRIVATE.reject( error ); }
\* for an exception in the body; an exception in a callback the body scheduled
\* has no handler.  With the hook null the catch clause throws in its turn.
\* An exception of a hook leaves the catch clause, for the host.
raise(H, code, error) ==
    IF code.kind = "body" /\ H.hooks.reject # Null
    THEN Call(escape, reject(H, H.hooks.reject, error, code.test))
    ELSE H

\* An exception that a hook call lets through reaches the code that made the
\* call: a callback or a timer has no handler; in a body it ends the body and
\* the catch clause calls ASYNC_TEST_PRIVATE.reject( error ) with what the slot
\* holds by then.
propagate(H, code) ==
    IF H.thrown = <<>> \/ code.kind # "body" THEN escape(H)
    ELSE IF H.hooks.reject = Null THEN escape([H EXCEPT !.thrown = <<TypeError>>])
         ELSE Call(escape, reject([H EXCEPT !.thrown = <<>>], H.hooks.reject, H.thrown[1],
                                  code.test))

\* ASYNC_TEST_PRIVATE.reject( error ) as running test code calls it: the hook
\* that is installed runs; with the hook null the call itself throws.
call_reject(H, code, error) ==
    IF H.hooks.reject = Null
    THEN raise(H, code, TypeError)
    ELSE Call(LAMBDA h : propagate(h, code), reject(H, H.hooks.reject, error, code.test))

\* ASYNC_TEST_PRIVATE.resolve() as running test code calls it, a hook being
\* installed.
call_resolve(H, code) ==
    Call(LAMBDA h : propagate(h, code), resolve(H, H.hooks.resolve, code.test))

\* The running code after a statement of it: it goes on, unless the statement
\* ended the run.
After(H, code) == IF H.terminated \/ H.uncaught # <<>> THEN NoCode ELSE code

\* What the runtime hands to the entry point: emscripten's callMain passes
\* argc, argv and 0, the loader of wasm32-unknown-unknown calls main().
runtime_arguments(target_name) ==
    IF Emscripten(target_name) THEN <<"argc", "argv", "0">> ELSE <<>>

\* The hooks the target dispatch installs for a target it knows.
install(target_name, node) ==
    IF target_name = "asmjs-unknown-emscripten" THEN {"Module.preInit"}
    ELSE IF target_name = "wasm32-unknown-emscripten"
         THEN {"Module.locateFile", "Module.preInit"}
         ELSE IF node THEN {"WebAssembly.Instance"} ELSE {"WebAssembly.instantiate"}

\* The target dispatch with the bug of taking any other target for
\* wasm32-unknown-unknown.
dispatch_defaulting(target_name, node) ==
    [thrown |-> <<>>, installed |-> install(target_name, node)]

\* The target dispatch at the end of the script: the hooks that are
\* installed, and what is thrown.
dispatch(target_name, node) ==
    IF target_name \in Targets
    THEN [thrown |-> <<>>, installed |-> install(target_name, node)]
    ELSE [thrown |-> <<Str("Unknown target: " \o target_name)>>, installed |-> {}]

\* The harness script is evaluated, up to its target dispatch.
Evaluate ==
    /\ pc = "script"
    /\ LET done == dispatch(env.target, is_node_js)
       IN  /\ interception' = done.installed
           /\ uncaught' = uncaught \o done.thrown
           /\ pc' = IF done.thrown = <<>> THEN "configured" ELSE "failed"
    /\ UNCHANGED <<is_node_js, tests, state, ASYNC_TEST_PRIVATE, console, timers, printed,
                   main_calls, exit_calls, terminated, settle_log, active, callbacks,
                   discovered, exec_log, written, live_console, env, exports, filter,
                   test_callback, entry_point, main_args, main_throws, real_instance,
                   target_exports, instantiations, runs, runtime>>

\* The identifier under which a target exports the function that the test
\* macro names __async_test__<name>, and the module's main: emscripten puts an
\* underscore before every symbol.
Mangled(target_name, name) ==
    (IF Emscripten(target_name) THEN "_" ELSE "") \o "__async_test__" \o name

EntrySymbol(target_name) == IF Emscripten(target_name) THEN "_main" ELSE "main"

\* An export of the module, a function, and the function the harness puts in
\* the entry-point slot.
Function(symbol) == [from |-> "module", symbol |-> symbol]
Shim == [from |-> "harness", symbol |-> "main"]

\* The export object of an artifact whose exports are `keys`, in that order.
ExportObject(keys) == [i \in DOMAIN keys |-> [key |-> keys[i], value |-> Function(keys[i])]]

\* for( let key in real_instance.exports ) that stops after the first export.
copy_first(exports_) == IF exports_ = <<>> THEN <<>> ELSE <<Head(exports_)>>

\* for( let key in real_instance.exports ) { instance.exports[ key ] = ... },
\* from the iteration with index i on.
RECURSIVE copy_from(_, _, _)
copy_from(exports_, i, object) ==
    IF i >= Len(exports_) THEN object
    ELSE Call(LAMBDA copied : copy_from(exports_, i + 1, copied),
              SetProperty(object, exports_[i + 1].key, exports_[i + 1].value))

copy(exports_) == copy_from(exports_, 0, <<>>)

\* What target.exports is set to: Module itself under emscripten, the export
\* object of a new instance = { exports: {} } under wasm32-unknown-unknown.
normalize(target_name, exports_) ==
    IF Emscripten(target_name) THEN exports_ ELSE copy(exports_)

\* target.exports[ "main" ] = function() { ... }, Module[ "_main" ] under
\* emscripten.
substitute(target_name, table) == SetProperty(table, EntrySymbol(target_name), Shim)

\* The export object of the artifact and target.exports after the
\* interception: the assignment of the shim is reached when get_filter has
\* returned, and under emscripten it is an assignment to Module.
intercepted(target_name, exports_, filtered) ==
    LET assign(table) ==
            IF ~filtered THEN [real |-> exports_, table |-> table]
            ELSE [real |-> IF Emscripten(target_name) THEN substitute(target_name, table)
                           ELSE exports_,
                  table |-> substitute(target_name, table)]
    IN  Call(assign, normalize(target_name, exports_))

WebAssemblyHooks == {"WebAssembly.Instance", "WebAssembly.instantiate"}

\* A patched function that does not put the original back.
restore_never(hooks) == hooks

\* The hooks still in place after the interception has run: the patched
\* WebAssembly.Instance / WebAssembly.instantiate puts the original back as the
\* first thing it does, the Module hooks stay.
restore(hooks) == hooks \ WebAssemblyHooks

\* The interception runs: Module.preInit is called by the emscripten runtime
\* before the module's main, `run` by the patched WebAssembly.Instance or
\* WebAssembly.instantiate when the loader instantiates the module.  It calls
\* get_filter and get_async_tests and puts the shim in the entry-point slot of
\* the export table; an exception of get_filter leaves through it.
Discover ==
    /\ pc = "configured"
    /\ interception' = restore(interception)
    /\ \E j_declared \in BOOLEAN :
         LET got == get_filter(env.args, j_declared)
             found == get_async_tests(got.value, exports)
         IN  /\ filter' = got
             /\ \E done \in {intercepted(env.target, real_instance, got.status # "thrown")} :
                    /\ real_instance' = done.real
                    /\ target_exports' = done.table
             /\ IF got.status = "thrown"
                THEN /\ uncaught' = Append(uncaught, Err(got.value))
                     /\ pc' = "failed"
                     /\ UNCHANGED <<tests, discovered, test_callback, entry_point>>
                ELSE /\ tests' = Keys(found)
                     /\ discovered' = Keys(found)
                     /\ test_callback' = [name \in Range(Keys(found)) |-> Get(found, name)]
                     /\ entry_point' = "shim"
                     /\ pc' = "loaded"
                     /\ UNCHANGED uncaught
    /\ IF Emscripten(env.target)
       THEN UNCHANGED <<instantiations, runs>>
       ELSE instantiations' = instantiations + 1 /\ runs' = runs + 1
    /\ UNCHANGED <<is_node_js, state, ASYNC_TEST_PRIVATE, console, timers, printed,
                   main_calls, exit_calls, terminated, settle_log, active, callbacks,
                   exec_log, written, live_console, env, exports, main_args, main_throws,
                   runtime>>

\* A later instantiation: the page, the loader or the module's code calls
\* WebAssembly.Instance or WebAssembly.instantiate again.  A patched function
\* still in place puts the original back and hands the new instance to `run`;
\* the original makes the instance and nothing else.
Instantiate ==
    /\ env.target = "wasm32-unknown-unknown"
    /\ pc \in {"loaded", "started"}
    /\ instantiations < MaxInstantiations
    /\ instantiations' = instantiations + 1
    /\ interception' = restore(interception)
    /\ runs' = IF interception \cap WebAssemblyHooks # {} THEN runs + 1 ELSE runs
    /\ UNCHANGED <<is_node_js, pc, harness, active, callbacks, discovered, exec_log,
                   written, live_console, env, exports, filter, test_callback, entry_point,
                   main_throws, real_instance, target_exports, runtime, main_args>>

\* The runtime calls what the entry-point slot holds.  The shim keeps the
\* arguments and calls run_tests( state, tests ); under emscripten it then
\* throws "SimulateInfiniteLoop", which the runtime expects and catches.
Main ==
    /\ pc = "loaded"
    /\ pc' = "started"
    /\ LET arguments == runtime_arguments(env.target)
       IN  IF entry_point = "shim"
           THEN /\ main_args' = arguments
                /\ \E H \in {Call(escape, run_tests([Cur EXCEPT !.main_args = arguments]))} :
                       Store(H)
           ELSE /\ UNCHANGED main_args
                /\ \E H \in {real_main(Cur, arguments, "runtime")} : Store(H)
    /\ UNCHANGED <<is_node_js, active, callbacks, discovered, exec_log, written, live_console, loader>>

\* The oldest setTimeout( ..., 0 ) callback fires and invokes the test body.
StartTest ==
    /\ Idle
    /\ timers.start # <<>>
    /\ LET test_name == Head(timers.start)
       IN  /\ \E H \in {start_test(Cur, test_name)} : Store(H)
           /\ active' = [kind |-> "body", test |-> test_name]
           /\ exec_log' = Append(exec_log, test_name)
    /\ UNCHANGED <<is_node_js, pc, callbacks, discovered, written, live_console,
                 loader, main_args>>

\* The running test code calls ASYNC_TEST_PRIVATE.resolve().
CallResolve ==
    /\ Running
    /\ IF ASYNC_TEST_PRIVATE.resolve = Null
       THEN /\ \E H \in {raise(Cur, active, TypeError)} : Store(H)
            /\ active' = NoCode
       ELSE \E H \in {call_resolve(Cur, active)} :
                Store(H) /\ active' = After(H, active)
    /\ UNCHANGED <<is_node_js, pc, callbacks, discovered, exec_log, written, live_console,
                 loader, main_args>>

\* The running test code calls ASYNC_TEST_PRIVATE.reject( error ).
CallReject ==
    /\ Running
    /\ \E error \in UserErrors :
         \E H \in {call_reject(Cur, active, error)} :
             /\ Store(H)
             /\ active' = IF ASYNC_TEST_PRIVATE.reject = Null THEN NoCode ELSE After(H, active)
    /\ UNCHANGED <<is_node_js, pc, callbacks, discovered, exec_log, written, live_console,
                 loader, main_args>>

\* The running test code writes through one of the channels.
Write ==
    /\ Running
    /\ \E c \in DOMAIN console :
         IF console[c] = "capture"
         THEN LET w == capture_write(Cur, active.test)
              IN  /\ written' = active.test
                  /\ \E H \in {raise(w.H, active, w.thrown)} : Store(H)
                  /\ active' = NoCode
                  /\ UNCHANGED live_console
         ELSE /\ live_console' = active.test
              /\ active' = After(Cur, active)
              /\ UNCHANGED <<harness, written>>
    /\ UNCHANGED <<is_node_js, pc, callbacks, discovered, exec_log, loader, main_args>>

\* The running test code returns to the event loop with a callback chained (a
\* timer, a promise continuation) that will run later.
Schedule ==
    /\ Running
    /\ callbacks' = callbacks \cup {active.test}
    /\ active' = NoCode
    /\ UNCHANGED <<is_node_js, pc, harness, discovered, exec_log, written, live_console,
                 loader, main_args>>

\* The running test code throws.
Throw ==
    /\ Running
    /\ \E error \in UserErrors : \E H \in {raise(Cur, active, error)} : Store(H)
    /\ active' = NoCode
    /\ UNCHANGED <<is_node_js, pc, callbacks, discovered, exec_log, written, live_console,
                 loader, main_args>>

\* The running test code returns to the event loop.
Return ==
    /\ Running
    /\ active' = NoCode
    /\ UNCHANGED <<is_node_js, pc, harness, callbacks, discovered, exec_log, written, live_console,
                 loader, main_args>>

\* A callback that a test body chained is run by the event loop.
RunCallback ==
    /\ Idle
    /\ \E test_name \in callbacks :
         /\ callbacks' = callbacks \ {test_name}
         /\ active' = [kind |-> "callback", test |-> test_name]
    /\ UNCHANGED <<is_node_js, pc, harness, discovered, exec_log, written, live_console,
                 loader, main_args>>

\* fire_timeout with the bug of calling the other hook.
fire_timeout_resolves(H, timer) ==
    LET H1 == [H EXCEPT !.timers.timeout = @ \ {timer}]
    IN  IF H1.hooks.resolve # Null
        THEN resolve(H1, H1.hooks.resolve, timer.id)
        ELSE H1

\* A 5000 ms timer fires: ASYNC_TEST_PRIVATE.reject( "Timeout!" ), looked up
\* when it fires.
fire_timeout(H, timer) ==
    LET H1 == [H EXCEPT !.timers.timeout = @ \ {timer}]
    IN  IF H1.hooks.reject # Null
        THEN Call(escape, reject(H1, H1.hooks.reject, TimeoutReason, timer.id))
        ELSE H1

FireTimeout ==
    /\ Idle
    /\ \E timer \in timers.timeout : \E H \in {fire_timeout(Cur, timer)} : Store(H)
    /\ UNCHANGED <<is_node_js, pc, active, callbacks, discovered, exec_log, written, live_console,
                 loader, main_args>>

\* The export table of an artifact with the first n tests of TestNames, among
\* exports that are no tests.
ExportTable(target_name, n) ==
    LET test(i) == Mangled(target_name, TestNames[i])
        artifact == <<"__async_test__", test(1), "____async_test__x", EntrySymbol(target_name),
                      test(2), "x__async_test__y", test(3), "_async_test__z", test(4),
                      test(5)>>
    IN  SelectSeq(artifact, LAMBDA symbol : symbol \notin {test(i) : i \in (n + 1)..Len(TestNames)})

\* The number of tests the artifacts of a target are explored with: the run
\* does not read env.target after the dispatch, and the longest queue is
\* explored for one target.
TestsOf(target_name) ==
    IF target_name = "wasm32-unknown-unknown" THEN MaxTests
    ELSE IF target_name \in Targets THEN MaxTests - 1 ELSE 1

\* The argument lists a run is explored with: none, a filter that keeps one
\* test, flags before the filter, a filter that keeps no test.
RunArguments ==
    {<<>>, <<"b">>, <<"--nocapture", "b", "a">>, <<"--color", "b">>, <<"zz">>}

\* ------------------------------------------------------------- the loaders
\* The loaders generated for wasm32-unknown-unknown: the one that carries the
\* runtime itself ("standalone", the second __initialize), the one that wraps a
\* module factory ("factory", the first __initialize), and the one of a web
\* extension ("extension"), which instantiates a factory's module by streaming.
Templates == {"standalone", "factory", "extension"}

ViewNames ==
    {"HEAP8", "HEAP16", "HEAP32", "HEAPU8", "HEAPU16", "HEAPU32", "HEAPF32", "HEAPF64"}

\* The typed array each view is.
ArrayOf(view) ==
    CASE view = "HEAP8" -> "Int8Array"
      [] view = "HEAP16" -> "Int16Array"
      [] view = "HEAP32" -> "Int32Array"
      [] view = "HEAPU8" -> "Uint8Array"
      [] view = "HEAPU16" -> "Uint16Array"
      [] view = "HEAPU32" -> "Uint32Array"
      [] view = "HEAPF32" -> "Float32Array"
      [] view = "HEAPF64" -> "Float64Array"

\* let HEAP8 = null; ... and new Int8Array( buffer ), ...
NoView == <<>>
View(array, buffer) == <<array, buffer>>

\* What a failed instantiation gives, and what the engine throws for the
\* undeclared wasm_instance of the factory loader's synchronous branch.
LinkError == Err("LinkError: WebAssembly.Instance(): Import #0 module=\"env\"")
UndeclaredInstance == Err("ReferenceError: wasm_instance is not defined")

\* What the caller of a loader has in hand: nothing yet, what the loader
\* returned or threw, or a promise, pending (with the error it is about to be
\* rejected with, if any), fulfilled or rejected.
NoError == Err("")
Object(name) == [kind |-> "object", text |-> name, stack |-> ""]
Nothing == [kind |-> "nothing", value |-> NoError]
Given(kind, value) == [kind |-> kind, value |-> value]

\* The loader's own state, as its functions see and change it.
Loaded ==
    [HEAP |-> HEAP, memory |-> memory, Module |-> Module, trace |-> trace,
     call_main |-> call_main, main_throws |-> main_throws, thrown |-> <<>>]

Keep(L) ==
    /\ HEAP' = L.HEAP
    /\ memory' = L.memory
    /\ Module' = L.Module
    /\ trace' = L.trace

\* web_on_grow with the bug of leaving one view as it was.
web_on_grow_seven(L) ==
    [L EXCEPT !.HEAP = [view \in ViewNames |->
                           IF view = "HEAPF64" THEN @[view]
                           ELSE View(ArrayOf(view), L.memory)]]

\* __imports.env.__web_on_grow(): the eight views are made anew over
\* Module.instance.exports.memory.buffer.
web_on_grow(L) ==
    [L EXCEPT !.HEAP = [view \in ViewNames |-> View(ArrayOf(view), L.memory)]]

\* {{call_main}}: the module's main runs; it may grow its memory, which it
\* reports through __web_on_grow, and it may throw.
main(L, grows) ==
    LET L1 == [L EXCEPT !.trace = Append(@, "main"),
                        !.thrown = IF L.main_throws THEN <<MainError>> ELSE <<>>]
    IN  IF grows THEN Call(web_on_grow, [L1 EXCEPT !.memory = @ + 1]) ELSE L1

\* __instantiate with the bug of calling main before the views are built.
instantiate_main_first(L, grows) ==
    LET L1 == [L EXCEPT !.Module = "instance"]
        L2 == IF L.call_main THEN main(L1, grows) ELSE L1
    IN  [web_on_grow(L2) EXCEPT !.trace = Append(@, "views")]

\* __instantiate( instance ): Module.instance is defined, the views are built,
\* main is called.
instantiate(L, grows) ==
    LET L1 == [web_on_grow([L EXCEPT !.Module = "instance"]) EXCEPT
                  !.trace = Append(@, "views")]
    IN  IF L.call_main THEN main(L1, grows) ELSE L1

\* instance.initialize( wasm_instance ) of a module factory: the factory's
\* runtime takes the instance and hands out the exports.
initialize(L) == [L EXCEPT !.Module = "instance", !.trace = Append(@, "initialize")]

\* The synchronous branch of a loader, from its call to its return or throw.
\* The factory loader assigns the WebAssembly instance to the variable that
\* held the factory's instance and then names wasm_instance, which is declared
\* nowhere: the argument of the call of initialize cannot be evaluated.
load_synchronously(L, kind, module, grows) ==
    IF module = "invalid"
    THEN [L |-> L, given |-> Given("thrown", LinkError)]
    ELSE IF kind = "standalone"
         THEN LET L1 == instantiate(L, grows)
              IN  IF L1.thrown # <<>>
                  THEN [L |-> L1, given |-> Given("thrown", L1.thrown[1])]
                  ELSE [L |-> [L1 EXCEPT !.trace = Append(@, "deliver")],
                        given |-> Given("returned", Object("Module.exports"))]
         ELSE [L |-> L, given |-> Given("thrown", UndeclaredInstance)]

\* The function given to .then(): it runs when the instantiation succeeded.
\* What it throws rejects the promise that .catch() is chained to.
then(L, kind, grows) ==
    LET L1 == IF kind = "standalone" THEN instantiate(L, grows) ELSE initialize(L)
    IN  IF L1.thrown # <<>>
        THEN [L |-> L1, given |-> Given("pending", L1.thrown[1])]
        ELSE [L |-> [L1 EXCEPT !.trace = @ \o <<"log finished", "deliver">>],
              given |-> Given("fulfilled", IF kind = "standalone" THEN Object("Module.exports")
                                           ELSE Object("exports"))]

\* catch with the bug of not throwing the error again.
catch_swallowing(L, error) ==
    [L |-> [L EXCEPT !.trace = Append(@, "log error")],
     given |-> Given("fulfilled", Object("undefined"))]

\* The function given to .catch(): it logs the error and throws it again.
catch(L, error) ==
    [L |-> [L EXCEPT !.trace = Append(@, "log error")],
     given |-> Given("rejected", error)]

harness_idle ==
    UNCHANGED <<is_node_js, pc, harness, active, callbacks, discovered, exec_log, written,
                live_console, env, exports, interception, filter, test_callback,
                entry_point, main_throws, main_args, real_instance, target_exports,
                instantiations, runs>>

\* The loader is called.  Its synchronous branch runs to its end; its
\* asynchronous branch returns the promise of the instantiation with the two
\* reactions chained.
Load ==
    /\ position = "call"
    /\ IF load_asynchronously
       THEN /\ position' = "instantiating"
            /\ delivered' = Given("pending", NoError)
            /\ UNCHANGED <<HEAP, memory, Module, trace>>
       ELSE \E grows \in BOOLEAN :
                \E done \in {load_synchronously(Loaded, template, wasm_module, grows)} :
                    /\ Keep(done.L)
                    /\ delivered' = done.given
                    /\ position' = "returned"
    /\ UNCHANGED <<template, load_asynchronously, wasm_module, call_main>>
    /\ harness_idle

\* WebAssembly.instantiate / instantiateStreaming settles its promise.
Settle ==
    /\ position = "instantiating"
    /\ IF wasm_module = "valid"
       THEN position' = "then" /\ UNCHANGED delivered
       ELSE position' = "catch" /\ delivered' = Given("pending", LinkError)
    /\ UNCHANGED <<template, load_asynchronously, wasm_module, call_main, HEAP, memory,
                   Module, trace>>
    /\ harness_idle

\* The reaction chained with .then() runs.
Then ==
    /\ position = "then"
    /\ \E grows \in BOOLEAN :
         \E done \in {then(Loaded, template, grows)} :
             /\ Keep(done.L)
             /\ delivered' = done.given
             /\ position' = IF done.given.kind = "pending" THEN "catch" ELSE "returned"
    /\ UNCHANGED <<template, load_asynchronously, wasm_module, call_main>>
    /\ harness_idle

\* The reaction chained with .catch() runs.
Catch ==
    /\ position = "catch"
    /\ \E done \in {catch(Loaded, delivered.value)} :
         /\ Keep(done.L)
         /\ delivered' = done.given
    /\ position' = "returned"
    /\ UNCHANGED <<template, load_asynchronously, wasm_module, call_main>>
    /\ harness_idle

\* The caller uses the exports it was given: code of the module runs and grows
\* the memory.
Grow ==
    /\ delivered.kind \in {"returned", "fulfilled"}
    /\ Module # Null
    /\ memory < MaxGrowth
    /\ memory' = memory + 1
    /\ UNCHANGED <<template, load_asynchronously, wasm_module, call_main, position, HEAP,
                   Module, trace, delivered>>
    /\ harness_idle

\* The module calls its import __web_on_grow.
Notify ==
    /\ delivered.kind \in {"returned", "fulfilled"}
    /\ Module # Null
    /\ template = "standalone"
    /\ \E L \in {web_on_grow(Loaded)} : Keep(L)
    /\ UNCHANGED <<template, load_asynchronously, wasm_module, call_main, position,
                   delivered>>
    /\ harness_idle

\* No loader is part of the run.
NotLoaded ==
    /\ template = "standalone"
    /\ load_asynchronously = FALSE
    /\ wasm_module = "valid"
    /\ call_main = TRUE
    /\ position = "none"
    /\ HEAP = [view \in ViewNames |-> NoView]
    /\ memory = 0
    /\ Module = Null
    /\ trace = <<>>
    /\ delivered = Nothing

\* The state when the harness script reaches its target dispatch: env holds
\* the target and the arguments of the host, nothing is discovered or run.
Start ==
    /\ pc = "script"
    /\ interception = {}
    /\ filter = NotCalled
    /\ test_callback = <<>>
    /\ entry_point = "real_main"
    /\ real_instance = ExportObject(exports)
    /\ target_exports = <<>>
    /\ instantiations = 0
    /\ runs = 0
    /\ main_args = Null
    /\ uncaught = <<>>
    /\ tests = <<>>
    /\ discovered = <<>>
    /\ state = [current_timeout |-> Null, outputs |-> <<>>, failed |-> <<>>, n_passed |-> 0]
    /\ ASYNC_TEST_PRIVATE = [resolve |-> Null, reject |-> Null]
    /\ console = originals(is_node_js)
    /\ timers = [start |-> <<>>, timeout |-> {}]
    /\ printed = <<>>
    /\ main_calls = <<>>
    /\ exit_calls = <<>>
    /\ terminated = FALSE
    /\ active = NoCode
    /\ callbacks = {}
    /\ exec_log = <<>>
    /\ settle_log = <<>>
    /\ written = Null
    /\ live_console = Null

Init ==
    /\ is_node_js \in BOOLEAN
    /\ \E target_name \in Targets \cup OtherTargets, args \in RunArguments :
         \E n \in 0..TestsOf(target_name) :
             /\ env = [args |-> args, target |-> target_name]
             /\ exports = ExportTable(target_name, n)
    /\ main_throws = FALSE
    /\ NotLoaded
    /\ Start

Next ==
    \/ Evaluate
    \/ Discover
    \/ Main
    \/ StartTest
    \/ CallResolve
    \/ CallReject
    \/ Write
    \/ Schedule
    \/ Throw
    \/ Return
    \/ RunCallback
    \/ FireTimeout

Spec == Init /\ [][Next]_vars

\* The host evaluates the script, loads the artifact and calls its entry
\* point; the event loop runs every timer that is due, whatever else is
\* queued; synchronous test code comes to its end.
Startup == Evaluate \/ Discover \/ Main

TestCode == CallResolve \/ CallReject \/ Write \/ Schedule \/ Throw \/ Return

FairSpec ==
    /\ Spec
    /\ WF_vars(Startup)
    /\ SF_vars(StartTest)
    /\ SF_vars(FireTimeout)
    /\ WF_vars(TestCode)

\* ------------------------------------------------ a real main that throws
\* The runs of an artifact whose main does not return: a Rust panic is a trap
\* under wasm32-unknown-unknown and an abort under emscripten, and either
\* reaches JavaScript as an exception of the call of main.
MainThrowsInit ==
    /\ is_node_js \in BOOLEAN
    /\ \E target_name \in Targets, args \in RunArguments :
         \E n \in 0..(MaxTests - 1) :
             /\ env = [args |-> args, target |-> target_name]
             /\ exports = ExportTable(target_name, n)
    /\ main_throws = TRUE
    /\ NotLoaded
    /\ Start

MainThrowsSpec == MainThrowsInit /\ [][Next]_vars

\* ------------------------------------------------------- a loader is called
\* A page or a script calls a loader, with a module that can be instantiated
\* or not; the web extension's loader is asynchronous only.
RuntimeInit ==
    /\ template \in Templates
    /\ load_asynchronously \in (IF template = "extension" THEN {TRUE} ELSE BOOLEAN)
    /\ wasm_module \in {"valid", "invalid"}
    /\ call_main \in (IF template = "standalone" THEN BOOLEAN ELSE {FALSE})
    /\ main_throws \in (IF call_main THEN BOOLEAN ELSE {FALSE})
    /\ position = "call"
    /\ HEAP = [view \in ViewNames |-> NoView]
    /\ memory = 0
    /\ Module = Null
    /\ trace = <<>>
    /\ delivered = Nothing
    /\ is_node_js = FALSE
    /\ env = [args |-> <<>>, target |-> "wasm32-unknown-unknown"]
    /\ exports = <<>>
    /\ Start

RuntimeNext == Load \/ Settle \/ Then \/ Catch \/ Grow \/ Notify

RuntimeSpec == RuntimeInit /\ [][RuntimeNext]_vars

\* ------------------------------------------- test code that ends the process
\* Under Node the script puts exit in the place of process.exit, so a call of
\* process.exit( status ) by the artifact's code is a call of exit( status ).
ExitStatuses == {0, 1, 2}

CallExit(status) ==
    /\ is_node_js
    /\ Running
    /\ \E H \in {exit(Cur, status)} : Store(H)
    /\ active' = NoCode
    /\ UNCHANGED <<is_node_js, pc, callbacks, discovered, exec_log, written, live_console,
                 loader, main_args>>

\* The running test code calls process.exit( status ).
ProcessExit == \E status \in ExitStatuses : CallExit(status)

ExitInit ==
    /\ is_node_js = TRUE
    /\ \E target_name \in Targets, args \in {<<>>, <<"b">>} :
         \E n \in 0..(MaxTests - 1) :
             /\ env = [args |-> args, target |-> target_name]
             /\ exports = ExportTable(target_name, n)
    /\ main_throws = FALSE
    /\ NotLoaded
    /\ Start

ExitNext == Next \/ ProcessExit

ExitSpec == ExitInit /\ [][ExitNext]_vars

\* --------------------------------------------- the load, over many inputs
\* The arguments and the exports the load is explored with: a flag that takes
\* a value, a flag that takes none, names of which one holds another, the same
\* name exported with and without the extra underscore, names that are array
\* indices, identifiers the pattern does not match.
ArgValues == {"--color", "--nocapture", "b", "ab"}

ExportSymbols ==
    {"main", "__async_test__", "____async_test__b", "__async_test__a", "___async_test__a",
     "__async_test__ab", "___async_test__b", "__async_test__10", "__async_test__2"}

ArgLists == UNION {[1..k -> ArgValues] : k \in 0..MaxArgs}

ExportTables ==
    {table \in UNION {[1..k -> ExportSymbols] : k \in 0..MaxExports} : NoDuplicates(table)}

LoadInit ==
    /\ is_node_js \in BOOLEAN
    /\ \E target_name \in Targets \cup OtherTargets, args \in ArgLists, table \in ExportTables :
         /\ Len(args) <= 1 \/ Len(table) <= 1
         /\ env = [args |-> args, target |-> target_name]
         /\ exports = table
    /\ main_throws = FALSE
    /\ NotLoaded
    /\ Start

\* After the load, test bodies that call resolve and return.
LoadNext ==
    \/ Evaluate
    \/ Discover
    \/ Main
    \/ StartTest
    \/ CallResolve
    \/ Return
    \/ Instantiate

LoadSpec == LoadInit /\ [][LoadNext]_vars

\* ------------------------------------------------------------- properties
\* The run has reached Done: run_tests found the queue empty, called real main
\* and exit.
Done == terminated

\* The tests a hook has recorded, and those recorded as passed.
Settled == {settle_log[i].test : i \in DOMAIN settle_log}
Passed == {settle_log[i].test : i \in {j \in DOMAIN settle_log : settle_log[j].outcome = "passed"}}

\* The tests run_tests has taken from the queue, in order: each prints its
\* "test <name> ... " line when it is taken.
Dequeued ==
    LET taken == SelectSeq(printed, LAMBDA l : l.kind = "test")
    IN  [i \in DOMAIN taken |-> taken[i].name]

\* C1: in every run that has reached Done, n_passed + failed.length is the
\* number of discovered tests, whatever each test did.
C1_CountsAddUp ==
    Done => state.n_passed + Len(state.failed) = Len(discovered)

\* C1 witness: a finished run of three tests of which one passed, one was
\* rejected or threw, and one timed out.
C1_Witness ==
    /\ Done
    /\ Len(discovered) = 3
    /\ state.n_passed = 1
    /\ \E i, j \in DOMAIN settle_log :
         /\ settle_log[i].reason \in UserErrors
         /\ settle_log[j].reason = TimeoutReason

\* C2, the state part: no test is taken from the queue twice, none is listed
\* twice in failed, none is recorded by two hook runs, none is both counted as
\* passed and listed in failed, n_passed counts exactly the tests recorded as
\* passed, and at Done every discovered test has been recorded.
C2_RecordedOnce ==
    /\ NoDuplicates(Dequeued)
    /\ NoDuplicates(state.failed)
    /\ NoDuplicates([i \in DOMAIN settle_log |-> settle_log[i].test])
    /\ Passed \cap Range(state.failed) = {}
    /\ state.n_passed = Cardinality(Passed)
    /\ Settled = Passed \cup Range(state.failed)
    /\ Done => Settled = Range(discovered) /\ Range(Dequeued) = Range(discovered)

\* C2, the step part: once discovery has made the queue, it only ever loses
\* tests, from its front.
C2_Shrinks ==
    pc \in {"loaded", "started"} =>
        \E k \in 0..Len(tests) : tests' = SubSeq(tests, k + 1, Len(tests))

\* C2: every discovered test is dequeued exactly once and recorded exactly
\* once; the pending queue only shrinks.
C2_ExactlyOnce == [](C2_RecordedOnce) /\ [][C2_Shrinks]_vars

\* C2 witness: a finished run of three tests with passed and failed tests.
C2_Witness ==
    /\ Done
    /\ Len(discovered) = 3
    /\ Passed # {}
    /\ state.failed # <<>>

C7_ExitStatus ==
    /\ Done <=> exit_calls # <<>>
    /\ Len(exit_calls) <= 1
    /\ \A i \in DOMAIN exit_calls :
         /\ exit_calls[i] = 0 <=> state.failed = <<>>
         /\ state.failed # <<>> => exit_calls[i] = FailureStatus

\* C7 witness: a run with a failed test has exited.
C7_Witness ==
    /\ exit_calls # <<>>
    /\ state.failed # <<>>
    /\ state.n_passed > 0

\* Test k has code in flight: its body or a callback it chained is on the call
\* stack, or a callback it chained is still to run.
InFlight(k) == (active.kind # "none" /\ active.test = k) \/ k \in callbacks

\* C3: at most one test is in flight at any time: the next body does not
\* start before the current test's body and chained callbacks have finished.
C3_OneInFlight ==
    Cardinality({k \in NameSet : InFlight(k)}) <= 1

\* The timeout timer `timer` fires in this step.
Fires(timer) ==
    /\ Idle
    /\ timer \in timers.timeout
    /\ \E H \in {fire_timeout(Cur, timer)} : Store(H)

\* C5, the step: when the timer armed for a test fires and no hook has
\* recorded that test yet, the test is appended to failed and the rejection
\* with reason "Timeout!" is appended to its captured output.
C5_TimeoutStep ==
    \A timer \in timers.timeout :
        (Fires(timer) /\ timer.id \notin Settled) =>
            /\ state'.failed = Append(state.failed, timer.id)
            /\ state'.outputs[timer.id] =
                   Append(state.outputs[timer.id], [kind |-> "rejected", text |-> "Timeout!"])
            /\ state'.n_passed = state.n_passed

C8_CapturedOutput ==
    written # Null =>
        /\ written \in DOMAIN state.outputs
        /\ \E i \in DOMAIN state.outputs[written] :
               state.outputs[written][i] = [kind |-> "text", text |-> written]
        /\ \A other \in DOMAIN state.outputs \ {written} :
               \A i \in DOMAIN state.outputs[other] :
                   state.outputs[other][i] # [kind |-> "text", text |-> written]

AllOriginal(channels) == \A c \in DOMAIN channels : channels[c] = "original"

\* C9, the steps: a step in which a hook records a test ends with every
\* channel the original again, and the channels stop being the originals only
\* in a step that invokes a test body.
C9_RestoreStep ==
    /\ settle_log' # settle_log => AllOriginal(console')
    /\ (AllOriginal(console) /\ ~AllOriginal(console')) => exec_log' # exec_log

\* C9: after a test settles by any path the channels are the originals again,
\* they stay so until the next test body starts, and real main runs with the
\* originals.
C9_ChannelsRestored ==
    /\ [][C9_RestoreStep]_vars
    /\ [](\A i \in DOMAIN main_calls : AllOriginal(main_calls[i].console))

\* C9 witness: real main has run after tests were settled by a timeout, by an
\* exception in the body and by a resolve call.
C9_Witness ==
    /\ main_calls # <<>>
    /\ AllOriginal(console)
    /\ Passed # {}
    /\ \E i, j \in DOMAIN settle_log :
         /\ settle_log[i].reason = TimeoutReason
         /\ settle_log[j].reason = ReferenceError

\* C10, the step: a statement run by code of a test that a hook has already
\* recorded changes neither n_passed, failed nor the pending queue.
C10_StaleStep ==
    (Running /\ active.test \in Settled) =>
        /\ state'.n_passed = state.n_passed
        /\ state'.failed = state.failed
        /\ tests' = tests

\* C10: the hooks are one-shot per test: a further resolve or reject call by a
\* test that is already settled changes nothing.
C10_OneShotHooks == [][C10_StaleStep]_vars
\* The summary lines printed so far.
Summaries == SelectSeq(printed, LAMBDA l : l.kind = "test result (async):")

\* C11: the module's real main is called once per run, by target.run_main and
\* not by the runtime's call of the entry point, when every discovered test has
\* been recorded, with the arguments the substituted entry point was called
\* with; no summary is printed before real main has returned.
C11_RealMainOnce ==
    /\ Len(main_calls) <= 1
    /\ Done => Len(main_calls) = 1
    /\ pc \in {"loaded", "started"} => entry_point = "shim"
    /\ Summaries # <<>> => main_calls # <<>>
    /\ \A i \in DOMAIN main_calls :
         /\ main_calls[i].by = "run_main"
         /\ main_calls[i].args = main_args
         /\ main_calls[i].args = runtime_arguments(env.target)
         /\ main_calls[i].settled = Len(discovered)
         /\ Settled = Range(discovered)
         /\ main_calls[i].summaries = 0

\* C11 witness: real main has run with the three arguments of emscripten's
\* callMain, after two tests of which one failed.
C11_Witness ==
    /\ Len(main_calls) = 1
    /\ main_calls[1].args = <<"argc", "argv", "0">>
    /\ Len(discovered) = 2
    /\ state.failed # <<>>
    /\ Len(Summaries) = 1

\* The body or callback that is running throws `error` in this step.
Throws(error) ==
    /\ Running
    /\ \E H \in {raise(Cur, active, error)} : Store(H)
    /\ active' = NoCode

\* The run goes on with the next test: its start callback is queued, or the
\* queue was empty and the run has ended.
Continues(H) == H.timers.start # <<>> \/ H.terminated

\* C12, the step: a step in which a test body throws appends that test to
\* failed, leaves n_passed as it is, and the run goes on.
C12_ThrowStep ==
    \A error \in UserErrors :
        (Throws(error) /\ active.kind = "body") =>
            /\ state'.failed = Append(state.failed, active.test)
            /\ state'.n_passed = state.n_passed
            /\ timers'.start # <<>> \/ terminated'

\* C12: an exception that a test body throws, at any point of the body, is
\* recorded as a failure of that test and the run continues.
C12_ThrowRecorded == [][C12_ThrowStep]_vars

\* C13: at every point of a test body, throwing E leaves the harness as calling
\* the reject hook with E does: the same failed, outputs, n_passed, queue,
\* timers, channels, hooks and printed text.
C13_ThrowIsReject ==
    (Running /\ active.kind = "body") =>
        \A error \in UserErrors :
            raise(Cur, active, error) = call_reject(Cur, active, error)

\* C13 witness: a body is running with its own hooks installed, after an
\* earlier test was failed with an error of its own, and a throw at this point
\* records the running test as failed and schedules the next test.
C13_Witness ==
    /\ Running
    /\ active.kind = "body"
    /\ ASYNC_TEST_PRIVATE.reject = active.test
    /\ tests # <<>>
    /\ \E i \in DOMAIN settle_log : settle_log[i].reason \in UserErrors
    /\ \A error \in UserErrors :
         LET H == raise(Cur, active, error)
         IN  /\ H.state.failed = Append(state.failed, active.test)
             /\ H.state.current_timeout = Null
             /\ AllOriginal(H.console)
             /\ H.timers.start = <<Head(tests)>>
\* C12 for a body that throws before any hook has recorded its test: the
\* failure is recorded for that test and the run goes on.
C12_UnsettledThrow ==
    [][\A error \in UserErrors :
          (Throws(error) /\ active.kind = "body" /\ active.test \notin Settled) =>
              /\ state'.failed = Append(state.failed, active.test)
              /\ state'.n_passed = state.n_passed
              /\ timers'.start # <<>> \/ terminated']_vars

\* An export identifier of the form __async_test__<name> with a name that is
\* not empty, after one extra underscore or none; and that name.
IsTest(symbol) ==
    \E lead \in {"", "_"} :
        /\ startsWith(symbol, lead \o "__async_test__")
        /\ Len(symbol) > Len(lead \o "__async_test__")

TestName(symbol) ==
    LET lead == CHOOSE l \in {"", "_"} : startsWith(symbol, l \o "__async_test__")
    IN  SubSeq(symbol, Len(lead \o "__async_test__") + 1, Len(symbol))

\* text holds part somewhere.
Contains(text, part) ==
    \E i \in 1..(Len(text) + 1) :
        i + Len(part) - 1 <= Len(text) /\ SubSeq(text, i, i + Len(part) - 1) = part

\* Discovery has run and returned a queue.
Discovered == pc \in {"loaded", "started"}

\* C14: the tests get_async_tests returns are those of the exports named
\* __async_test__<name>, with a name that is not empty, after at most one extra
\* underscore, whose name passes the filter: every such export's name is a
\* test, the body of every test is the function of such an export of that
\* name, and no body of another export is invoked.
C14_PatternMatch ==
    Discovered =>
        LET kept == {symbol \in Range(exports) :
                        /\ IsTest(symbol)
                        /\ filter.value = Null \/ Contains(TestName(symbol), filter.value)}
        IN  /\ Range(discovered) = {TestName(symbol) : symbol \in kept}
            /\ DOMAIN test_callback = Range(discovered)
            /\ \A name \in Range(discovered) :
                   test_callback[name] \in kept /\ TestName(test_callback[name]) = name
            /\ \A i \in DOMAIN exec_log : test_callback[exec_log[i]] \in kept

\* C14 witness: of two exports, one with four underscores before async_test
\* and one with three, the second alone is a test, and its body has been
\* invoked.
C14_Witness ==
    /\ "____async_test__b" \in Range(exports)
    /\ "___async_test__a" \in Range(exports)
    /\ discovered = <<"a">>
    /\ exec_log = <<"a">>

\* C15: with a filter that is not null the queue holds exactly the matching
\* names that contain the filter, and only bodies of such names are invoked;
\* with a null filter it holds every matching name.
C15_SubstringFilter ==
    Discovered =>
        LET names == {TestName(symbol) : symbol \in {e \in Range(exports) : IsTest(e)}}
        IN  IF filter.value = Null
            THEN Range(discovered) = names
            ELSE /\ Range(discovered) = {name \in names : Contains(name, filter.value)}
                 /\ \A i \in DOMAIN exec_log : Contains(exec_log[i], filter.value)

\* C15 witness: with the filter "b", of the tests a and ab only ab is queued,
\* and its body has been invoked.
C15_Witness ==
    /\ filter = Returned("b")
    /\ {"__async_test__a", "__async_test__ab"} \subseteq Range(exports)
    /\ discovered = <<"ab">>
    /\ exec_log = <<"ab">>

\* s without the later occurrences of its elements.
RECURSIVE FirstOccurrences(_)
FirstOccurrences(s) ==
    IF s = <<>> THEN <<>>
    ELSE LET front == FirstOccurrences(SubSeq(s, 1, Len(s) - 1))
         IN  IF s[Len(s)] \in Range(front) THEN front ELSE Append(front, s[Len(s)])

\* C16: the queue holds the names of the matching exports that pass the
\* filter in the order in which the export table enumerates them.
C16_EnumerationOrder ==
    Discovered =>
        LET kept == SelectSeq(exports, LAMBDA symbol :
                        /\ IsTest(symbol)
                        /\ filter.value = Null \/ Contains(TestName(symbol), filter.value))
        IN  discovered = FirstOccurrences([i \in DOMAIN kept |-> TestName(kept[i])])

\* C16 for names that are no array indices: the queue is in the order of the
\* export table.
C16_NamesNotIndices ==
    (Discovered /\ \A i \in DOMAIN discovered : ~IsIndex(discovered[i])) =>
        C16_EnumerationOrder

\* The first argument that does not begin with "--", null when there is none.
FirstPositional(args) ==
    LET positional == {i \in DOMAIN args : ~startsWith(args[i], "--")}
    IN  IF positional = {} THEN Null
        ELSE args[CHOOSE i \in positional : \A k \in positional : i <= k]

\* C17: get_filter returns the first argument that is not flag-prefixed, null
\* when there is none.
C17_FirstPositional ==
    filter # NotCalled => filter = Returned(FirstPositional(env.args))

\* The first positional argument from position i on, when each of the five
\* flags takes the argument after it as its value.
RECURSIVE FilterAfterFlags(_, _)
FilterAfterFlags(args, i) ==
    IF i > Len(args) THEN Null
    ELSE IF args[i] \in ValueFlags THEN FilterAfterFlags(args, i + 2)
         ELSE IF startsWith(args[i], "--") THEN FilterAfterFlags(args, i + 1)
              ELSE args[i]

\* C18: with one of the five flags followed by a value among the arguments,
\* get_filter returns, and what it returns is the first positional argument
\* that is not the value of a flag.
C18_ValueFlags ==
    (filter # NotCalled /\ \E i \in 1..(Len(env.args) - 1) : env.args[i] \in ValueFlags) =>
        filter = Returned(FilterAfterFlags(env.args, 1))

C20_ZeroTests ==
    (pc = "started" /\ discovered = <<>>) =>
        /\ Done
        /\ Len(main_calls) = 1
        /\ main_calls[1].by = "run_main"
        /\ main_calls[1].args = runtime_arguments(env.target)
        /\ exec_log = <<>>
        /\ printed = <<Line("test result (async):", "ok", 0, 0, <<>>)>>
        /\ exit_calls = <<0>>

\* C20 witness: a run has ended in which the filter left none of the exported
\* tests, and real main was given the arguments of emscripten's callMain.
C20_Witness ==
    /\ Done
    /\ discovered = <<>>
    /\ filter = Returned("zz")
    /\ \E i \in DOMAIN exports : IsTest(exports[i])
    /\ Len(main_calls) = 1
    /\ main_calls[1].args = <<"argc", "argv", "0">>

\* The report of a final state as the summary is to print it: per failed test, in the
\* order of failed, a header and the captured output; the failures block with
\* the names in that order; the status line.
RECURSIVE Dumps(_, _)
Dumps(st, k) ==
    IF k = 0 THEN <<>>
    ELSE Dumps(st, k - 1) \o <<Line("header", st.failed[k], 0, 0, <<>>),
                               Line("output", st.failed[k], 0, 0, st.outputs[st.failed[k]])>>

Report(st) ==
    IF st.failed = <<>>
    THEN <<Line("test result (async):", "ok", st.n_passed, 0, <<>>)>>
    ELSE Dumps(st, Len(st.failed))
             \o <<Line("failures (async):", "", 0, 0, <<>>)>>
             \o [i \in DOMAIN st.failed |-> Line("name", st.failed[i], 0, 0, <<>>)]
             \o <<Line("blank", "", 0, 0, <<>>),
                  Line("test result (async):", "FAILED", st.n_passed, Len(st.failed), <<>>)>>

Resolves ==
    /\ Running
    /\ ASYNC_TEST_PRIVATE.resolve # Null
    /\ \E H \in {call_resolve(Cur, active)} : Store(H)

\* Test t has been failed by its own code or by its own timer.
OwnFailure(t) ==
    \E i \in DOMAIN settle_log :
        settle_log[i].test = t /\ settle_log[i].outcome = "failed" /\ settle_log[i].own

\* C22, the step: when code of a test that has not rejected, thrown or timed
\* out calls the resolve hook, the test is not in failed, and no dump of it
\* will be printed.
C22_ResolveStep ==
    (Resolves /\ ~OwnFailure(active.test)) =>
        /\ active.test \notin Range(state'.failed)
        /\ \A i \in DOMAIN printed' :
               printed'[i].kind = "header" => printed'[i].name # active.test

\* C22: a test that calls the resolve hook before its timeout fires and never
\* rejects is not in failed and has no dump in the report.
C22_ResolvedNotFailed == [][C22_ResolveStep]_vars

\* C23: with the tests a, b, c discovered in that order, a run in which a
\* resolves, b throws and c is left to its timeout, each recorded by its own
\* hook, ends with n_passed = 1, failed = [b, c], exit status 101 and the
\* status line FAILED, 1 passed, 2 failed.
C23_Scenario ==
    (/\ Done
     /\ discovered = <<"a", "b", "c">>
     /\ Len(settle_log) = 3
     /\ \A i \in 1..3 : settle_log[i].test = discovered[i] /\ settle_log[i].own
     /\ settle_log[1].outcome = "passed"
     /\ settle_log[2].reason \in UserErrors
     /\ settle_log[3].reason = TimeoutReason) =>
        /\ state.n_passed = 1
        /\ state.failed = <<"b", "c">>
        /\ exit_calls = <<FailureStatus>>
        /\ printed[Len(printed)] = Line("test result (async):", "FAILED", 1, 2, <<>>)

\* C23 witness: such a run has ended, all three bodies having been invoked in
\* order.
C23_Witness ==
    /\ Done
    /\ discovered = <<"a", "b", "c">>
    /\ exec_log = <<"a", "b", "c">>
    /\ Len(settle_log) = 3
    /\ \A i \in 1..3 : settle_log[i].test = discovered[i] /\ settle_log[i].own
    /\ settle_log[1].outcome = "passed"
    /\ settle_log[2].reason \in UserErrors
    /\ settle_log[3].reason = TimeoutReason

\* The positions in printed of the lines of a kind, and of the line of a kind
\* for a test.
LinesOf(kind) == {i \in DOMAIN printed : printed[i].kind = kind}
LinesFor(kind, name) == {i \in LinesOf(kind) : printed[i].name = name}

C25_Contained ==
    pc \in {"loaded", "started"} =>
        /\ uncaught = <<>>
        /\ main_calls # <<>> => (Summaries # <<>> /\ exit_calls # <<>>)
\* A reject hook runs in this step: it is the one call that appends a failure
\* to the log of settlements.
Rejected ==
    /\ Len(settle_log') = Len(settle_log) + 1
    /\ settle_log'[Len(settle_log')].outcome = "failed"

\* C26, the step: the reject hook of test t, called with reason r, appends one
\* "Rejected with error" entry for r to the output of t, the stack of r when r
\* is an object that carries one and its text otherwise, appends t to failed,
\* and leaves the outputs of the other tests and n_passed as they were.
C26_RejectStep ==
    Rejected =>
        LET t == settle_log'[Len(settle_log')].test
            r == settle_log'[Len(settle_log')].reason
            entry == [kind |-> "rejected",
                      text |-> IF r.kind = "object" /\ r.stack # "" THEN r.stack ELSE r.text]
        IN  /\ t \in DOMAIN state.outputs
            /\ state'.outputs[t] = Append(state.outputs[t], entry)
            /\ state'.failed = Append(state.failed, t)
            /\ state'.n_passed = state.n_passed
            /\ \A u \in DOMAIN state.outputs \ {t} : state'.outputs[u] = state.outputs[u]

\* C26: every run of a reject hook has exactly that effect.
C26_RejectEffect == [][C26_RejectStep]_vars

\* C26 witness: one test has passed, one has been rejected with an Error object
\* and one with the string of the timeout, and the output of each of the two
\* holds the entry of its reason.
C26_Witness ==
    /\ state.n_passed = 1
    /\ \E i, j \in DOMAIN settle_log :
         /\ settle_log[i].reason \in UserErrors
         /\ settle_log[j].reason = TimeoutReason
         /\ state.outputs[settle_log[i].test]
              = <<[kind |-> "rejected", text |-> settle_log[i].reason.stack]>>
         /\ state.outputs[settle_log[j].test] = <<[kind |-> "rejected", text |-> "Timeout!"]>>

\* C27, the step: when a body is invoked, the 5000 ms timeout of its test is
\* armed and kept in state.current_timeout; after a hook has recorded a test,
\* and when real main is called, state.current_timeout is null and no timeout
\* of the harness is pending.
C27_TimeoutStep ==
    /\ exec_log' # exec_log =>
           LET test_name == exec_log'[Len(exec_log')]
           IN  /\ state'.current_timeout = test_name
               /\ [id |-> test_name, delay |-> TimeoutMs] \in timers'.timeout
    /\ settle_log' # settle_log =>
           /\ state'.current_timeout = Null
           /\ timers'.timeout = {}
    /\ main_calls' # main_calls =>
           /\ main_calls'[Len(main_calls')].current_timeout = Null
           /\ main_calls'[Len(main_calls')].live = {}

\* C27: the timeout is armed when a body starts and none is left when a test
\* has been settled or real main is called.
C27_TimeoutDiscipline == [][C27_TimeoutStep]_vars

\* C28: a "Timeout!" rejection is recorded only for the test whose start
\* callback armed the timer that delivered it, and at most one timeout of the
\* harness is live at a time.
C28_OwnTimeout ==
    /\ \A i \in DOMAIN settle_log : settle_log[i].reason = TimeoutReason => settle_log[i].own
    /\ Cardinality(timers.timeout) <= 1

\* C29, the step: a body is invoked by a step of the event loop that starts
\* with no test code on the stack, runs no part of a hook or of run_tests, and
\* invokes the test whose start callback is the oldest in the queue, after
\* the line of that test and the result of every recorded test were printed.
C29_StartStep ==
    exec_log' # exec_log =>
        LET test_name == exec_log'[Len(exec_log')]
        IN  /\ active.kind = "none"
            /\ active' = [kind |-> "body", test |-> test_name]
            /\ timers.start # <<>> /\ Head(timers.start) = test_name
            /\ LinesFor("test", test_name) # {}
            /\ Cardinality(LinesOf("ok") \cup LinesOf("FAILED")) = Len(settle_log)
            /\ printed[Len(printed)].kind = "test"
            /\ UNCHANGED <<settle_log, printed, tests, ASYNC_TEST_PRIVATE, main_calls, exit_calls>>
            /\ state'.failed = state.failed
            /\ state'.n_passed = state.n_passed
            /\ state'.outputs = state.outputs

\* C29: a body is never invoked inside run_tests or inside the hook that
\* settles the previous test, always in a later turn of the event loop.
C29_NeverInline == [][C29_StartStep]_vars

\* C29 witness: the body of the second test has been invoked after the first
\* test was recorded.
C29_Witness ==
    /\ Len(exec_log) = 2
    /\ Len(settle_log) = 1
    /\ settle_log[1].test = exec_log[1]
    /\ active = [kind |-> "body", test |-> exec_log[2]]

\* C30: a write of test code through a channel leaves the verdicts as they
\* were: n_passed and failed do not change in the step of the write.
C30_WriteIsNeutral ==
    [][written' # written =>
           /\ state'.n_passed = state.n_passed
           /\ state'.failed = state.failed]_vars
\* The exports that match the naming pattern and pass the filter.
Kept ==
    {symbol \in Range(exports) :
        /\ IsTest(symbol)
        /\ filter.value = Null \/ Contains(TestName(symbol), filter.value)}

\* C31: there are as many tests as exports that match the naming pattern and
\* pass the filter, and the function of each such export is the body of the
\* test of its name.
C31_DistinctTests ==
    Discovered =>
        /\ Len(discovered) = Cardinality(Kept)
        /\ \A symbol \in Kept : test_callback[TestName(symbol)] = symbol
\* C32, the step: a call of the exit wrapper with a status hands the real exit
\* 101 when the status is 0 and failed is not empty, and the status itself
\* otherwise, in one call; so does the exit( 0 ) that ends a run.
C32_ExitStep ==
    /\ \A status \in ExitStatuses :
           CallExit(status) =>
               exit_calls' = Append(exit_calls, IF status = 0 /\ state.failed # <<>>
                                                THEN FailureStatus ELSE status)
    /\ main_calls' # main_calls =>
           exit_calls' = Append(exit_calls, IF state'.failed # <<>> THEN FailureStatus ELSE 0)
    /\ Len(exit_calls') <= Len(exit_calls) + 1

\* C32: the exit wrapper maps status 0 to 101 exactly when failed is not
\* empty, passes every other status on unchanged, and calls the real exit once.
C32_ExitWrapper == [][C32_ExitStep]_vars

\* C32 witness: test code has called process.exit( 1 ) after a test had failed,
\* and the real exit was given 1.
C32_Witness ==
    /\ exit_calls = <<1>>
    /\ state.failed # <<>>
    /\ main_calls = <<>>

\* Every view is a typed array over the module's current memory buffer.
ViewsCurrent ==
    \A view \in ViewNames : HEAP[view] # NoView /\ HEAP[view] = View(ArrayOf(view), memory)

\* C33, the step: after __instantiate has run and after every call of
\* __web_on_grow, each of the eight views is set and all are over the buffer
\* the module's memory has at that moment.
C33_ViewsStep ==
    (Notify \/ HEAP' # HEAP \/ (template = "standalone" /\ Module = Null /\ Module' # Null))
        => ViewsCurrent'

\* C33: initialization and every growth notification leave the eight views
\* set, over the memory buffer that is current then.
C33_ViewsRebuilt == [][C33_ViewsStep]_vars

\* C33 witness: the memory has grown at least twice by the time the loader has
\* returned, and the views are over the latest buffer.
C33_Witness ==
    /\ template = "standalone"
    /\ delivered.kind = "returned"
    /\ memory >= 2
    /\ ViewsCurrent

\* C34: in the loader that carries the runtime, synchronous or asynchronous,
\* the views are built before main is called and before Module.exports is
\* delivered, and they are set when it is delivered.
C34_ViewsFirst ==
    template = "standalone" =>
        /\ \A i \in DOMAIN trace :
               trace[i] \in {"main", "deliver"} => \E j \in 1..(i - 1) : trace[j] = "views"
        /\ delivered.kind \in {"returned", "fulfilled"} =>
               /\ \E i \in DOMAIN trace : trace[i] = "deliver"
               /\ \A view \in ViewNames : HEAP[view] # NoView

\* C34 witness: the asynchronous branch has built the views, called main and
\* fulfilled its promise with Module.exports.
C34_Witness ==
    /\ template = "standalone"
    /\ load_asynchronously
    /\ delivered = Given("fulfilled", Object("Module.exports"))
    /\ trace = <<"views", "main", "log finished", "deliver">>

\* C35: the synchronous branch of the factory loader, given a module that can
\* be instantiated, calls the factory's initialize and returns the exports the
\* asynchronous branch fulfils its promise with.
C35_SynchronousFactory ==
    (template = "factory" /\ ~load_asynchronously /\ wasm_module = "valid"
         /\ position = "returned") =>
        /\ delivered = Given("returned", Object("exports"))
        /\ \E i \in DOMAIN trace : trace[i] = "initialize"

\* C36: under wasm32-unknown-unknown the export table the interception hands
\* on holds every export of the real instance with its own value, `main`
\* excepted, which holds the shim from before the first call of main on, and
\* nothing else; the export object of the real instance is as it was.
C36_NormalizedExports ==
    (env.target = "wasm32-unknown-unknown" /\ pc \in {"loaded", "started"}) =>
        /\ \A i \in DOMAIN real_instance :
               real_instance[i].key # "main" =>
                   /\ real_instance[i].key \in Range(Keys(target_exports))
                   /\ Get(target_exports, real_instance[i].key) = real_instance[i].value
        /\ "main" \in Range(Keys(target_exports))
        /\ Get(target_exports, "main") = Shim
        /\ Range(Keys(target_exports)) \subseteq Range(Keys(real_instance)) \cup {"main"}
        /\ entry_point = "shim"
        /\ pc = "loaded" => main_calls = <<>>
        /\ real_instance = ExportObject(exports)

\* C36 witness: an instance that exports main and a test has been intercepted
\* and main has not been called: the table holds the shim and the test.
C36_Witness ==
    /\ env.target = "wasm32-unknown-unknown"
    /\ pc = "loaded"
    /\ real_instance = ExportObject(<<"main", "__async_test__a">>)
    /\ target_exports = <<[key |-> "main", value |-> Shim],
                          [key |-> "__async_test__a", value |-> Function("__async_test__a")]>>

\* C37: when the asynchronous instantiation fails, initialize and main are
\* never called and no exports are delivered; once the reactions have run the
\* error has been logged and the promise is rejected with that error.
C37_FailedInstantiation ==
    (load_asynchronously /\ wasm_module = "invalid") =>
        /\ \A i \in DOMAIN trace : trace[i] = "log error"
        /\ Module = Null
        /\ delivered.kind \in {"nothing", "pending", "rejected"}
        /\ position = "returned" =>
               /\ delivered = Given("rejected", LinkError)
               /\ trace = <<"log error">>

\* C37 witness: the promise of the web extension's loader has been rejected
\* with the error of the instantiation.
C37_Witness ==
    /\ template = "extension"
    /\ wasm_module = "invalid"
    /\ position = "returned"
    /\ delivered = Given("rejected", LinkError)

\* C38, the step: an instantiation leaves no patched WebAssembly function in
\* place, it is handed to `run` exactly when it is the first, and what the
\* discovery sets is set by the first instantiation only.
C38_InstantiationStep ==
    env.target = "wasm32-unknown-unknown" =>
        /\ instantiations' # instantiations =>
               /\ interception' \cap WebAssemblyHooks = {}
               /\ runs' = (IF instantiations = 0 THEN runs + 1 ELSE runs)
               /\ runs' = 1
        /\ (runs' # runs \/ filter' # filter \/ discovered' # discovered
                \/ test_callback' # test_callback \/ target_exports' # target_exports) =>
               instantiations = 0 /\ instantiations' = 1

\* C38: the interception of WebAssembly.Instance / WebAssembly.instantiate is
\* one-shot: the first call puts the original back, only the first
\* instantiation goes through `run`, and the discovery happens once.
C38_OneShot == [][C38_InstantiationStep]_vars

\* C38 witness: the module has been instantiated a second time during the run
\* of the tests, and `run` has been called once.
C38_Witness ==
    /\ env.target = "wasm32-unknown-unknown"
    /\ pc = "started"
    /\ discovered # <<>>
    /\ instantiations = 2
    /\ runs = 1
    /\ interception = {}
=============================================================================
